---- MODULE Spec2Model ----
(***************************************************************************)
(* A model of the two pipelines of the repository:                         *)
(*   extract_pptx.py   : is_english, extract_from_presentation             *)
(*   translate_pptx.py : translate_text, translate_presentation            *)
(* A string is a sequence of one-character strings.  A presentation is a   *)
(* sequence of slides.  The extractor reads the flattened .text view of    *)
(* every shape, so its presentations carry that view; the translator       *)
(* rewrites paragraphs and runs, so its presentations carry text frames.   *)
(***************************************************************************)
EXTENDS Integers, Sequences, FiniteSets, TLC

VARIABLES
    pc,                   \* position of the running entry point
    text,                 \* argument of is_english
    ret,                  \* value returned by the entry point
    strings,              \* extract_from_presentation: the pool of candidates
    prs,                  \* the presentation (mutated in place by the translator)
    slides_out,           \* extract_from_presentation: per-slide records
    prs0,                 \* history: the presentation as loaded
    cur,                  \* translate_presentation: slide / shape / frame being visited
    original_paragraphs,  \* translate_presentation: snapshot of the frame being rebuilt
    calls,                \* history: the translate_text calls made, in order
    snapshotted           \* history: the runs whose run_data has been stored

vars == <<pc, text, ret, strings, prs, slides_out, prs0, cur,
          original_paragraphs, calls, snapshotted>>

\* ---------------------------------------------------------------- bounds
MaxLen    == 3     \* longest string given to is_english
MaxPool   == 4     \* longest pool given to the de-duplication
MaxSlides == 2     \* slides of a presentation
MaxShapes == 2     \* shapes of a slide
MaxRows   == 2     \* rows of a table
MaxCols   == 2     \* columns of a table
MaxParas  == 2     \* paragraphs of a text frame
MaxRuns   == 3     \* runs of a text frame, over all its paragraphs

\* ------------------------------------------------------------ characters
Upper == {"A","B","C","D","E","F","G","H","I","J","K","L","M",
          "N","O","P","Q","R","S","T","U","V","W","X","Y","Z"}
Lower == {"a","b","c","d","e","f","g","h","i","j","k","l","m",
          "n","o","p","q","r","s","t","u","v","w","x","y","z"}
\* The character class of EN_LATIN_RE, [A-Za-z].
EN_LATIN_RE == Upper \cup Lower
\* What str.strip() removes: the code points c with c.isspace().  A code point
\* without a string escape is written by its number.
Whitespace ==
    {"\t", "\n", "U+000B", "\f", "\r",                        \* U+0009..U+000D
     "U+001C", "U+001D", "U+001E", "U+001F", " ",              \* U+001C..U+0020
     "U+0085", "U+00A0", "U+1680",
     "U+2000", "U+2001", "U+2002", "U+2003", "U+2004", "U+2005",
     "U+2006", "U+2007", "U+2008", "U+2009", "U+200A",
     "U+2028", "U+2029", "U+202F", "U+205F", "U+3000"}
\* The characters of the strings given to is_english: a space, a form feed
\* and an ideographic space, a lower-case and an upper-case Latin letter, a
\* digit and a CJK ideograph (by code point).
Alphabet == {" ", "\f", "U+3000", "a", "Z", "7", "U+65E5"}

RECURSIVE lstrip(_)
lstrip(s) ==
    IF s = <<>> THEN <<>>
    ELSE IF Head(s) \in Whitespace THEN lstrip(Tail(s)) ELSE s

RECURSIVE rstrip(_)
rstrip(s) ==
    IF s = <<>> THEN <<>>
    ELSE IF s[Len(s)] \in Whitespace THEN rstrip(SubSeq(s, 1, Len(s) - 1)) ELSE s

\* str.strip()
strip(s) == rstrip(lstrip(s))

\* re.match: the class must match at the first character.
EN_LATIN_RE_match(t) == t # <<>> /\ t[1] \in EN_LATIN_RE

\* EN_LATIN_RE.search(text): the class matches somewhere in the string.
EN_LATIN_RE_search(t) == \E k \in 1..Len(t) : t[k] \in EN_LATIN_RE

is_english(txt) ==
    IF txt = <<>> THEN FALSE
    ELSE LET t == strip(txt) IN
         IF t = <<>> THEN FALSE ELSE EN_LATIN_RE_search(t)

\* ------------------------------------------------------- de-duplication
\* Compares each string with its predecessor only.
RECURSIVE dedupe_adjacent(_)
dedupe_adjacent(strs) ==
    IF Len(strs) <= 1 THEN strs
    ELSE LET front == dedupe_adjacent(SubSeq(strs, 1, Len(strs) - 1)) IN
         IF strs[Len(strs)] = strs[Len(strs) - 1] THEN front
         ELSE Append(front, strs[Len(strs)])

\* The loop "for s in strings: if s not in seen: ...".
RECURSIVE dedupe_loop(_, _, _)
dedupe_loop(rest, seen, unique) ==
    IF rest = <<>> THEN unique
    ELSE LET s == Head(rest) IN
         IF s \notin seen
         THEN dedupe_loop(Tail(rest), seen \cup {s}, Append(unique, s))
         ELSE dedupe_loop(Tail(rest), seen, unique)

unique_strings(strs) == dedupe_loop(strs, {}, <<>>)

\* ------------------------------------------------------------ extraction
\* A slide of the extractor's presentation:
\*   shapes      : the shapes, each [has_text_frame, text, has_table, table],
\*                 table a sequence of rows, a row a sequence of cell texts
\*   title       : index in shapes of the title placeholder, 0 when none
\*   title_error : "none", or what raises while the title is read:
\*                 "lookup" (slide.shapes.title), "text" (its .text)
\*   notes_error : reading the notes raises
\*   notes       : the notes text frame's text

\* title = str(slide.shapes.title.text).strip() under try/except; None and
\* the empty string are both falsy and are both given as the empty string.
read_title(slide) ==
    IF slide.title_error # "none" THEN <<>>
    ELSE IF slide.title = 0 THEN <<>>
    ELSE strip(slide.shapes[slide.title].text)

\* Appends the title whatever its classification.
title_strings_unclassified(title) == IF title # <<>> THEN <<title>> ELSE <<>>

\* What the title adds to the pool.
title_strings(title) ==
    IF title # <<>> /\ is_english(title) THEN <<title>> ELSE <<>>

\* The title by text: a shape whose text is the title's text.
is_title_shape_by_text(slide, j) ==
    slide.title # 0 /\ slide.shapes[j].text = slide.shapes[slide.title].text

\* "shape == slide.shapes.title" under try/except: shape proxies are equal
\* when they proxy the same element; a raising lookup is passed over.
is_title_shape(slide, j) ==
    IF slide.title_error = "lookup" THEN FALSE ELSE j = slide.title

\* The text-frame branch of the shape loop: [items, strings] it appends.
text_frame_part(shape) ==
    IF shape.has_text_frame
    THEN LET t == strip(shape.text) IN
         IF t # <<>>
         THEN [items   |-> << [type |-> "text", text |-> t] >>,
               strings |-> IF is_english(t) THEN <<t>> ELSE <<>>]
         ELSE [items |-> <<>>, strings |-> <<>>]
    ELSE [items |-> <<>>, strings |-> <<>>]

\* "for c, cell in enumerate(row.cells)" from column c (0-based) on.
RECURSIVE row_part(_, _, _)
row_part(row, r, c) ==
    IF c >= Len(row) THEN [cells |-> <<>>, strings |-> <<>>]
    ELSE LET cell_text == strip(row[c + 1])
             rest      == row_part(row, r, c + 1)
         IN  IF cell_text # <<>>
             THEN [cells   |-> << [r |-> r, c |-> c, text |-> cell_text] >> \o rest.cells,
                   strings |-> (IF is_english(cell_text) THEN <<cell_text>> ELSE <<>>)
                               \o rest.strings]
             ELSE rest

\* "for r, row in enumerate(table.rows)" from row r (0-based) on.
RECURSIVE rows_part(_, _)
rows_part(table, r) ==
    IF r >= Len(table) THEN [cells |-> <<>>, strings |-> <<>>]
    ELSE LET here == row_part(table[r + 1], r, 0)
             rest == rows_part(table, r + 1)
         IN  [cells |-> here.cells \o rest.cells, strings |-> here.strings \o rest.strings]

\* Appends the table item whether or not a cell was collected.
table_item_always(cells) == << [type |-> "table", cells |-> cells] >>

\* "if cells: s_entry['items'].append(...)".
table_item(cells) ==
    IF cells # <<>> THEN << [type |-> "table", cells |-> cells] >> ELSE <<>>

\* The table branch of the shape loop.
table_part(shape) ==
    IF shape.has_table
    THEN LET got == rows_part(shape.table, 0) IN
         [items |-> table_item(got.cells), strings |-> got.strings]
    ELSE [items |-> <<>>, strings |-> <<>>]

\* "for shape in slide.shapes" from shape j on.
RECURSIVE shapes_part(_, _)
shapes_part(slide, j) ==
    IF j > Len(slide.shapes) THEN [items |-> <<>>, strings |-> <<>>]
    ELSE LET rest == shapes_part(slide, j + 1) IN
         IF is_title_shape(slide, j) THEN rest
         ELSE LET tf == text_frame_part(slide.shapes[j])
                  tb == table_part(slide.shapes[j])
              IN  [items   |-> tf.items \o tb.items \o rest.items,
                   strings |-> tf.strings \o tb.strings \o rest.strings]

\* notes_text under try/except, then stripped.
read_notes(slide) == IF slide.notes_error THEN <<>> ELSE strip(slide.notes)

\* The record of slide number n, and what the slide adds to the pool.
slide_entry(slide, n) ==
    LET title == read_title(slide)
        body  == shapes_part(slide, 1)
        notes == read_notes(slide)
    IN  (IF title # <<>> THEN ("title" :> title) ELSE <<>>)
        @@ (IF notes # <<>> THEN ("notes" :> notes) ELSE <<>>)
        @@ [slide_index |-> n, items |-> body.items]

slide_strings(slide) ==
    LET title == read_title(slide)
        notes == read_notes(slide)
    IN  title_strings(title)
        \o shapes_part(slide, 1).strings
        \o (IF notes # <<>> /\ is_english(notes) THEN <<notes>> ELSE <<>>)

\* The extractor's entry point has not yet read slide number next_slide.
next_slide == Len(slides_out) + 1

\* One iteration of "for i, slide in enumerate(prs.slides, start=1)".
ExtractSlideBody ==
    /\ slides_out' = Append(slides_out, slide_entry(prs[next_slide], next_slide))
    /\ strings' = strings \o slide_strings(prs[next_slide])
    /\ UNCHANGED <<pc, text, ret, prs, prs0, cur, original_paragraphs, calls, snapshotted>>

\* The iteration without the try/except around the title and the notes.
ExtractSlideUnguarded ==
    /\ pc = "walk"
    /\ next_slide <= Len(prs)
    /\ IF prs[next_slide].title_error # "none" \/ prs[next_slide].notes_error
       THEN /\ pc' = "aborted"
            /\ UNCHANGED <<text, ret, strings, prs, slides_out, prs0, cur,
                           original_paragraphs, calls, snapshotted>>
       ELSE ExtractSlideBody

ExtractSlide ==
    /\ pc = "walk"
    /\ next_slide <= Len(prs)
    /\ ExtractSlideBody

\* After the last slide: de-duplicate and return.
ExtractReturn ==
    /\ pc = "walk"
    /\ next_slide > Len(prs)
    /\ ret' = [slides |-> slides_out, strings |-> unique_strings(strings)]
    /\ pc' = "returned"
    /\ UNCHANGED <<text, strings, prs, slides_out, prs0, cur, original_paragraphs,
                   calls, snapshotted>>

\* ----------------------------------------------- inputs of the extractor
\* Raw texts: blank, a padded candidate, a candidate, a non-candidate.  The
\* blanks and the padding mix the space with a form feed, a vertical tab (the
\* line break of a shape's .text) and an ideographic space.
DocTexts  == {<<"\f", " ">>, <<"U+3000", "a", " ">>, <<"Z">>, <<"7">>}
CellTexts == {<<" ", "U+000B">>, <<"\f", "a">>, <<"7">>}

\* All sequences over S of length lo..hi.
SeqsOf(S, lo, hi) == UNION {[1..n -> S] : n \in lo..hi}

Picture       == [has_text_frame |-> FALSE, text |-> <<>>, has_table |-> FALSE, table |-> <<>>]
TextBox(t)    == [has_text_frame |-> TRUE, text |-> t, has_table |-> FALSE, table |-> <<>>]
TableShape(m) == [has_text_frame |-> FALSE, text |-> <<>>, has_table |-> TRUE, table |-> m]

Tables == UNION {[1..r -> [1..c -> CellTexts]] : r \in 1..MaxRows, c \in 1..MaxCols}

\* A slide holding one table and nothing else.
TableDocs ==
    {<< [shapes |-> <<TableShape(m)>>, title |-> 0, title_error |-> "none",
         notes_error |-> FALSE, notes |-> <<>>] >> : m \in Tables}

SlideShapes ==
    {Picture} \cup {TextBox(t) : t \in DocTexts}
    \cup {TableShape(<< <<t>> >>) : t \in DocTexts}

\* The title placeholder is a shape with a text frame; a failing lookup
\* leaves no title to tell apart, a failing .text needs a title.
TitleChoices(shapes) ==
    {[title |-> 0, title_error |-> e] : e \in {"none", "lookup"}}
    \cup {[title |-> j, title_error |-> e] :
            j \in {x \in DOMAIN shapes : shapes[x].has_text_frame},
            e \in {"none", "text"}}

NotesChoices(texts) ==
    {[notes_error |-> TRUE, notes |-> <<>>]}
    \cup {[notes_error |-> FALSE, notes |-> t] : t \in texts}

SlidesOver(shapeSeqs, noteTexts) ==
    {[shapes |-> sh, title |-> tc.title, title_error |-> tc.title_error,
      notes_error |-> nc.notes_error, notes |-> nc.notes] :
        sh \in shapeSeqs, tc \in UNION {TitleChoices(x) : x \in shapeSeqs},
        nc \in NotesChoices(noteTexts)}

WellFormedSlide(s) ==
    [title |-> s.title, title_error |-> s.title_error] \in TitleChoices(s.shapes)

\* One slide with every kind of shape.
SlideDocs ==
    {<<s>> : s \in {x \in SlidesOver(SeqsOf(SlideShapes, 0, MaxShapes), DocTexts) :
                      WellFormedSlide(x)}}

\* Several slides, each with at most one text box.
WalkSlides ==
    {x \in SlidesOver({<<>>, <<TextBox(<<"Z">>)>>}, {<<" ">>, <<" ", "a">>}) :
        WellFormedSlide(x)}

WalkDocs == SeqsOf(WalkSlides, 1, MaxSlides)

ExtractDocs == TableDocs \cup SlideDocs \cup WalkDocs

Strings == SeqsOf(Alphabet, 0, MaxLen)

PoolValues == {<<"a">>, <<"Z">>, <<"a", "Z">>}
Pools == SeqsOf(PoolValues, 0, MaxPool)

\* ----------------------------------------------- the three small drivers
Idle == <<>>

InitClassify ==
    /\ pc = "call"
    /\ text \in Strings
    /\ ret = FALSE
    /\ strings = Idle /\ prs = Idle /\ slides_out = Idle /\ prs0 = Idle
    /\ cur = Idle /\ original_paragraphs = Idle /\ calls = Idle /\ snapshotted = {}

\* is_english(text)
Classify ==
    /\ pc = "call"
    /\ ret' = is_english(text)
    /\ pc' = "returned"
    /\ UNCHANGED <<text, strings, prs, slides_out, prs0, cur, original_paragraphs,
                   calls, snapshotted>>

SpecClassify == InitClassify /\ [][Classify]_vars

InitDedup ==
    /\ pc = "dedupe"
    /\ strings \in Pools
    /\ ret = Idle
    /\ text = Idle /\ prs = Idle /\ slides_out = Idle /\ prs0 = Idle
    /\ cur = Idle /\ original_paragraphs = Idle /\ calls = Idle /\ snapshotted = {}

\* The de-duplication of a pool.
Deduplicate ==
    /\ pc = "dedupe"
    /\ ret' = unique_strings(strings)
    /\ pc' = "returned"
    /\ UNCHANGED <<text, strings, prs, slides_out, prs0, cur, original_paragraphs,
                   calls, snapshotted>>

SpecDedup == InitDedup /\ [][Deduplicate]_vars

InitExtract ==
    /\ pc = "walk"
    /\ prs \in ExtractDocs
    /\ slides_out = <<>>
    /\ strings = <<>>
    /\ ret = Idle
    /\ text = Idle /\ prs0 = Idle
    /\ cur = Idle /\ original_paragraphs = Idle /\ calls = Idle /\ snapshotted = {}

NextExtract == ExtractSlide \/ ExtractReturn

SpecExtract == InitExtract /\ [][NextExtract]_vars

\* ------------------------------------------- properties of the extractor
\* The m-th smallest element of a set of integers.
Nth(S, m) == CHOOSE k \in S : Cardinality({j \in S : j < k}) = m - 1

\* Row-major order of <<row, column>> pairs.
PairBefore(a, b) == a[1] < b[1] \/ (a[1] = b[1] /\ a[2] < b[2])
NthPair(S, m) == CHOOSE x \in S : Cardinality({y \in S : PairBefore(y, x)}) = m - 1

NonBlankIdx(s) == {k \in 1..Len(s) : s[k] \notin Whitespace}

\* The string without its leading and trailing whitespace, stated by position.
Trimmed(s) ==
    IF NonBlankIdx(s) = {} THEN <<>>
    ELSE SubSeq(s, Nth(NonBlankIdx(s), 1), Nth(NonBlankIdx(s), Cardinality(NonBlankIdx(s))))

HasLatinLetter(s) == \E k \in 1..Len(s) : s[k] \in Upper \cup Lower

\* C1: is_english(s) is true exactly when s, trimmed, is non-empty and holds
\* a character of A-Z or a-z; it is false for the empty string, for
\* whitespace-only strings and for strings of digits or non-Latin characters.
Thm_C1_Classifier ==
    pc = "returned" =>
        /\ ret = (Trimmed(text) # <<>> /\ HasLatinLetter(Trimmed(text)))
        /\ (text = <<>> => ret = FALSE)
        /\ ((\A k \in 1..Len(text) : text[k] \in Whitespace) => ret = FALSE)
        /\ ((\A k \in 1..Len(text) : text[k] \in {"7", "U+65E5"}) => ret = FALSE)

\* A string padded with whitespace other than the space, whose only Latin
\* letter follows a non-Latin character, has been classified as a candidate.
Wit_C1_Classifier ==
    /\ pc = "returned"
    /\ ret = TRUE
    /\ Len(text) = 3
    /\ text[1] \in Whitespace \ {" "} /\ text[2] = "U+65E5" /\ text[3] \in Upper \cup Lower

FirstOccurrences(strs) == {k \in 1..Len(strs) : \A j \in 1..(k - 1) : strs[j] # strs[k]}

\* C4: the returned list is the pool with every later duplicate of an
\* already-seen value removed, first occurrences kept in their relative
\* place; it holds no duplicates.
Thm_C4_DedupOrder ==
    pc = "returned" =>
        /\ Len(ret) = Cardinality(FirstOccurrences(strings))
        /\ \A m \in 1..Len(ret) : ret[m] = strings[Nth(FirstOccurrences(strings), m)]
        /\ \A a, b \in 1..Len(ret) : ret[a] = ret[b] => a = b

\* A pool whose duplicate is separated from its first occurrence by another
\* value has been de-duplicated.
Wit_C4_DedupOrder ==
    /\ pc = "returned"
    /\ Len(ret) >= 2
    /\ \E a, b, c \in 1..Len(strings) :
          a < b /\ b < c /\ strings[a] = strings[c] /\ strings[a] # strings[b]

\* C5: every returned string satisfies is_english and is non-empty after
\* trimming, whichever source it came from.
Thm_C5_PoolClassified ==
    /\ \A k \in 1..Len(strings) :
          is_english(strings[k]) /\ HasLatinLetter(strings[k]) /\ Trimmed(strings[k]) # <<>>
    /\ pc = "returned" =>
          \A k \in 1..Len(ret.strings) :
              /\ is_english(ret.strings[k])
              /\ HasLatinLetter(ret.strings[k])
              /\ Trimmed(ret.strings[k]) # <<>>

\* A slide with a recorded non-candidate title, a table cell and notes has
\* been extracted, and candidates were returned.
Wit_C5_PoolClassified ==
    /\ pc = "returned"
    /\ Len(ret.slides) = 1
    /\ "title" \in DOMAIN ret.slides[1]
    /\ ~HasLatinLetter(ret.slides[1].title)
    /\ "notes" \in DOMAIN ret.slides[1]
    /\ \E j \in DOMAIN prs[1].shapes : prs[1].shapes[j].has_table
    /\ Len(ret.strings) >= 2

IsTableItem(it) == it.type = "table"
IsTextItem(it) == it.type = "text"

NonEmptyCells(table) ==
    {rc \in (0..(Len(table) - 1)) \X (0..(Len(table[1]) - 1)) :
        Trimmed(table[rc[1] + 1][rc[2] + 1]) # <<>>}

EmittingTables(slide) ==
    {j \in DOMAIN slide.shapes :
        /\ j # slide.title
        /\ slide.shapes[j].has_table
        /\ NonEmptyCells(slide.shapes[j].table) # {}}

\* C6: a table shape produces one table item exactly when one of its cells
\* has non-empty trimmed text; the item lists exactly the non-empty cells,
\* each with its 0-based row and column and its trimmed text, row-major.
Thm_C6_TableEmission ==
    \A n \in DOMAIN slides_out :
        LET slide  == prs[n]
            tables == SelectSeq(slides_out[n].items, IsTableItem)
        IN  /\ Len(tables) = Cardinality(EmittingTables(slide))
            /\ \A m \in 1..Len(tables) :
                  LET table == slide.shapes[Nth(EmittingTables(slide), m)].table
                      cells == tables[m].cells
                  IN  /\ Len(cells) = Cardinality(NonEmptyCells(table))
                      /\ \A q \in 1..Len(cells) :
                            LET rc == NthPair(NonEmptyCells(table), q) IN
                            cells[q] = [r |-> rc[1], c |-> rc[2],
                                        text |-> Trimmed(table[rc[1] + 1][rc[2] + 1])]

\* A table whose only non-empty cell is at row 1, column 1 has produced its
\* item.
Wit_C6_TableEmission ==
    /\ Len(slides_out) = 1
    /\ Len(prs[1].shapes) = 1
    /\ prs[1].shapes[1].has_table
    /\ NonEmptyCells(prs[1].shapes[1].table) = {<<1, 1>>}
    /\ Len(slides_out[1].items) = 1

\* C7: an error while a title or notes are read is swallowed: the slide's
\* record has no title (notes) key, and every slide, also those after the
\* failing one, gets its record: every step of the walk appends a record
\* or, after the last slide, returns.
Thm_C7_ErrorsSwallowed ==
    /\ [](/\ \A n \in DOMAIN slides_out :
                /\ slides_out[n].slide_index = n
                /\ (prs[n].title_error # "none" \/ prs[n].title = 0)
                      => "title" \notin DOMAIN slides_out[n]
                /\ prs[n].notes_error => "notes" \notin DOMAIN slides_out[n]
          /\ pc = "returned" => (ret.slides = slides_out /\ Len(ret.slides) = Len(prs)))
    /\ [][pc = "walk" =>
            \/ (pc' = "walk" /\ Len(slides_out') = Len(slides_out) + 1)
            \/ (pc' = "returned" /\ Len(slides_out) = Len(prs))]_vars

\* A presentation whose first slide failed on title and notes has been
\* walked to the end, the second slide recorded with its title.
Wit_C7_ErrorsSwallowed ==
    /\ pc = "returned"
    /\ Len(prs) >= 2
    /\ prs[1].title_error # "none"
    /\ prs[1].notes_error
    /\ "title" \in DOMAIN ret.slides[2]
    /\ "notes" \in DOMAIN ret.slides[2]

TextShapes(slide) ==
    {j \in DOMAIN slide.shapes :
        /\ j # slide.title
        /\ slide.shapes[j].has_text_frame
        /\ Trimmed(slide.shapes[j].text) # <<>>}

\* C9: a readable non-empty title is recorded under title whatever its
\* classification and gives no item; every other shape with a text frame and
\* non-empty trimmed text gives exactly one text item, also when its text is
\* the title's text.
Thm_C9_TitleByIdentity ==
    \A n \in DOMAIN slides_out :
        LET slide == prs[n]
            texts == SelectSeq(slides_out[n].items, IsTextItem)
        IN  /\ (/\ slide.title # 0
                /\ slide.title_error = "none"
                /\ Trimmed(slide.shapes[slide.title].text) # <<>>)
                  => /\ "title" \in DOMAIN slides_out[n]
                     /\ slides_out[n].title = Trimmed(slide.shapes[slide.title].text)
            /\ Len(texts) = Cardinality(TextShapes(slide))
            /\ \A m \in 1..Len(texts) :
                  texts[m].text = Trimmed(slide.shapes[Nth(TextShapes(slide), m)].text)

\* A slide whose non-candidate title and another text box carry the same
\* text has been extracted.
Wit_C9_TitleByIdentity ==
    /\ Len(slides_out) = 1
    /\ prs[1].title # 0
    /\ prs[1].title_error = "none"
    /\ "title" \in DOMAIN slides_out[1]
    /\ ~HasLatinLetter(slides_out[1].title)
    /\ \E j \in DOMAIN prs[1].shapes :
          /\ j # prs[1].title
          /\ prs[1].shapes[j].has_text_frame
          /\ prs[1].shapes[j].text = prs[1].shapes[prs[1].title].text
    /\ Len(slides_out[1].items) = 1

\* ------------------------------------------------------------ translation
\* The translator's presentation.  A run is [text, font]; a font holds the six
\* attributes the code copies, each "None" when unset, and color_rgb "NoRGB"
\* when the run has no explicit RGB colour (none at all, or a theme colour).
\* A paragraph is [alignment, level, line_spacing, space_before, space_after,
\* runs]; a text frame is a non-empty sequence of paragraphs.  A shape is
\* [has_text_frame, text_frame, has_table, table], a table a sequence of rows
\* of cell text frames.  A slide is [shapes, title, has_notes_slide, notes],
\* title the index of the title placeholder in shapes or 0.
\* A text is a sequence of tokens; the token "\n" separates lines.
FontAttrs == {"name", "size", "bold", "italic", "underline", "color_rgb"}

\* The font of a run made by add_run().
NewFont ==
    [name |-> "None", size |-> "None", bold |-> "None", italic |-> "None",
     underline |-> "None", color_rgb |-> "NoRGB"]

\* The paragraph made by add_paragraph().
NewParagraph ==
    [alignment |-> "None", level |-> 0, line_spacing |-> "None",
     space_before |-> "None", space_after |-> "None", runs |-> <<>>]

\* Python truth of an attribute value: None, False, 0 and "" are falsy.
truthy(v) == v \notin {"None", "NoRGB", "False", "0", ""}

\* The backend: the translation of a text, line breaks kept.
Translator_translate(t) == <<"zh:">> \o t

\* On failure the text is dropped.
translate_text_dropping(t, ok) == IF ok THEN Translator_translate(t) ELSE <<>>

\* translate_text: the translation, or on any exception the text itself.
translate_text(t, ok) == IF ok THEN Translator_translate(t) ELSE t

RECURSIVE paragraph_text(_)
paragraph_text(runs) ==
    IF runs = <<>> THEN <<>> ELSE Head(runs).text \o paragraph_text(Tail(runs))

\* text_frame.text: the paragraphs' texts joined by line breaks.
RECURSIVE frame_text(_)
frame_text(frame) ==
    IF Len(frame) = 1 THEN paragraph_text(frame[1].runs)
    ELSE paragraph_text(frame[1].runs) \o <<"\n">> \o frame_text(Tail(frame))

\* str.split("\n")
RECURSIVE split_lines(_)
split_lines(t) ==
    IF \A k \in 1..Len(t) : t[k] # "\n" THEN <<t>>
    ELSE LET k == CHOOSE x \in 1..Len(t) : t[x] = "\n" /\ \A y \in 1..(x - 1) : t[y] # "\n"
         IN  <<SubSeq(t, 1, k - 1)>> \o split_lines(SubSeq(t, k + 1, Len(t)))

\* "text_frame.text = t": the frame's content is replaced by one new
\* paragraph per line, holding one new run when the line is not empty.
set_text(t) ==
    LET lines == split_lines(t) IN
    [k \in 1..Len(lines) |->
        [NewParagraph EXCEPT !.runs =
            IF lines[k] = <<>> THEN <<>> ELSE << [text |-> lines[k], font |-> NewFont] >>]]

\* "run.font.color.rgb": raises unless the colour is an explicit RGB colour.
rgb_raises(run) == run.font.color_rgb = "NoRGB"

\* p_data of a paragraph.
snapshot_paragraph(p) ==
    [alignment |-> p.alignment, level |-> p.level, line_spacing |-> p.line_spacing,
     space_before |-> p.space_before, space_after |-> p.space_after,
     runs |-> [r \in DOMAIN p.runs |-> [text |-> p.runs[r].text, font |-> p.runs[r].font]]]

\* The run added for run_data: the text, and every truthy attribute restored.
new_run(run_data, translated_text) ==
    [text |-> translated_text,
     font |-> [a \in FontAttrs |->
                 IF truthy(run_data.font[a]) THEN run_data.font[a] ELSE NewFont[a]]]

\* The paragraph loop's head for snapshot paragraph p: the first paragraph is
\* reused, later ones are added; attributes are restored, runs removed.
setup_paragraph(frame, snap, p) ==
    LET base == IF p = 1 THEN frame[1] ELSE NewParagraph
        p_data == snap[p]
        restored ==
            [base EXCEPT
                !.alignment = p_data.alignment,
                !.level = p_data.level,
                !.line_spacing = IF truthy(p_data.line_spacing) THEN p_data.line_spacing ELSE @,
                !.space_before = IF truthy(p_data.space_before) THEN p_data.space_before ELSE @,
                !.space_after = IF truthy(p_data.space_after) THEN p_data.space_after ELSE @,
                !.runs = <<>>]
    IN  IF p = 1 THEN [frame EXCEPT ![1] = restored] ELSE Append(frame, restored)

\* The paragraph loop from snapshot paragraph p up to the next paragraph that
\* has a run to translate: [frame, para], para past the snapshot when none.
RECURSIVE rebuild_from(_, _, _)
rebuild_from(frame, snap, p) ==
    IF p > Len(snap) THEN [frame |-> frame, para |-> p]
    ELSE LET f == setup_paragraph(frame, snap, p) IN
         IF snap[p].runs # <<>> THEN [frame |-> f, para |-> p]
         ELSE rebuild_from(f, snap, p + 1)

\* Cell number k (1-based, row-major) of a table.
CellRow(table, k) == ((k - 1) \div Len(table[1])) + 1
CellCol(table, k) == ((k - 1) % Len(table[1])) + 1
CellCount(table) == Len(table) * Len(table[1])

\* The frame at shape j of slide i: the shape's own (k = 0) or cell k's.
FrameAt(d, i, j, k) ==
    IF k = 0 THEN d[i].shapes[j].text_frame
    ELSE LET table == d[i].shapes[j].table IN table[CellRow(table, k)][CellCol(table, k)]

WithFrame(d, i, j, k, f) ==
    IF k = 0 THEN [d EXCEPT ![i].shapes[j].text_frame = f]
    ELSE LET table == d[i].shapes[j].table IN
         [d EXCEPT ![i].shapes[j].table[CellRow(table, k)][CellCol(table, k)] = f]

\* Whether the shape loop reaches the frame at (j, k): the shape is not the
\* title and has the text frame (k = 0) or the table (k > 0).
visited_frame(slide, j, k) ==
    /\ j # slide.title
    /\ IF k = 0 THEN slide.shapes[j].has_text_frame ELSE slide.shapes[j].has_table

\* The position after (j, k) in the shape loop.
next_pos(slide, j, k) ==
    IF j # slide.title /\ slide.shapes[j].has_table /\ k < CellCount(slide.shapes[j].table)
    THEN [shape |-> j, cell |-> k + 1]
    ELSE [shape |-> j + 1, cell |-> 0]

\* The <<paragraph, run>> positions of a frame's runs.
RunsOf(frame) ==
    UNION {{<<p, r>> : r \in DOMAIN frame[p].runs} : p \in DOMAIN frame}

\* The order in which the snapshot loops reach the runs: by paragraph, then
\* by run.
snapshot_before(a, b) == a[1] < b[1] \/ (a[1] = b[1] /\ a[2] < b[2])

\* The run among S the snapshot reaches first.
first_in_snapshot(S) == CHOOSE x \in S : \A y \in S : y = x \/ snapshot_before(x, y)

\* The place of a translate_text call: slide, phase (0 title, 1 shapes,
\* 2 notes), shape, cell (0 the shape's own frame), paragraph, run.
Site(i, phase, j, k, p, r) == <<i, phase, j, k, p, r>>

Call(site, arg, ok) == [site |-> site, arg |-> arg, ok |-> ok]

\* Lines 39-42: the title.
TranslateTitle ==
    /\ pc = "title"
    /\ LET slide == prs[cur.slide]
           title_text == frame_text(slide.shapes[slide.title].text_frame)
           translating == slide.title # 0 /\ strip(title_text) # <<>>
       IN  \E ok \in (IF translating THEN BOOLEAN ELSE {TRUE}) :
             /\ IF translating
                THEN /\ prs' = [prs EXCEPT ![cur.slide].shapes[slide.title].text_frame =
                                   set_text(translate_text(title_text, ok))]
                     /\ calls' = Append(calls, Call(Site(cur.slide, 0, 0, 0, 0, 0),
                                                    title_text, ok))
                ELSE UNCHANGED <<prs, calls>>
             /\ pc' = "frame"
             /\ cur' = [slide |-> cur.slide, shape |-> 1, cell |-> 0, para |-> 0, run |-> 0]
    /\ UNCHANGED <<text, ret, strings, slides_out, prs0, original_paragraphs, snapshotted>>

\* What follows the rebuild of the frame at cur once paragraph `para` is the
\* next with a run to translate.
AfterParagraphs(para, snap) ==
    IF para > Len(snap)
    THEN /\ pc' = "frame"
         /\ LET nx == next_pos(prs[cur.slide], cur.shape, cur.cell) IN
            cur' = [cur EXCEPT !.shape = nx.shape, !.cell = nx.cell, !.para = 0, !.run = 0]
    ELSE /\ pc' = "run"
         /\ cur' = [cur EXCEPT !.para = para, !.run = 1]

\* One step of the shape loop: the loop's end, the title's skip, a frame that
\* is absent or blank, or lines 53-108 (134-189 for a cell): the snapshot, the
\* removal of the paragraphs after the first, and the paragraph loop up to
\* the first run to translate.
VisitFrame ==
    /\ pc = "frame"
    /\ LET slide == prs[cur.slide]
           i == cur.slide
           j == cur.shape
           k == cur.cell
       IN  IF j > Len(slide.shapes)
           THEN /\ pc' = "notes"
                /\ UNCHANGED <<prs, cur, original_paragraphs, snapshotted>>
           ELSE IF ~visited_frame(slide, j, k) \/ strip(frame_text(FrameAt(prs, i, j, k))) = <<>>
           THEN /\ pc' = "frame"
                /\ LET nx == next_pos(slide, j, k) IN
                   cur' = [cur EXCEPT !.shape = nx.shape, !.cell = nx.cell]
                /\ UNCHANGED <<prs, original_paragraphs, snapshotted>>
           ELSE LET frame == FrameAt(prs, i, j, k)
                    runs == RunsOf(frame)
                    raising == {pr \in runs : rgb_raises(frame[pr[1]].runs[pr[2]])}
                IN  IF raising # {}
                    THEN LET first == first_in_snapshot(raising) IN
                         /\ pc' = "crashed"
                         /\ original_paragraphs' =
                               [q \in 1..(first[1] - 1) |-> snapshot_paragraph(frame[q])]
                         /\ snapshotted' = snapshotted \cup
                               {Site(i, 1, j, k, pr[1], pr[2]) :
                                    pr \in {x \in runs : snapshot_before(x, first)}}
                         /\ UNCHANGED <<prs, cur>>
                    ELSE LET snap == [q \in 1..Len(frame) |-> snapshot_paragraph(frame[q])]
                             nx == rebuild_from(<<frame[1]>>, snap, 1)
                         IN  /\ original_paragraphs' = snap
                             /\ snapshotted' = snapshotted \cup
                                   {Site(i, 1, j, k, pr[1], pr[2]) : pr \in runs}
                             /\ prs' = WithFrame(prs, i, j, k, nx.frame)
                             /\ AfterParagraphs(nx.para, snap)
    /\ UNCHANGED <<text, ret, strings, slides_out, prs0, calls>>

\* Lines 111-128 (192-209 for a cell) for one run_data, and the paragraph
\* loop up to the next run to translate.
TranslateRun ==
    /\ pc = "run"
    /\ LET i == cur.slide
           j == cur.shape
           k == cur.cell
           run_data == original_paragraphs[cur.para].runs[cur.run]
           frame == FrameAt(prs, i, j, k)
       IN  \E ok \in BOOLEAN :
             LET run == new_run(run_data, translate_text(run_data.text, ok))
                 added == [frame EXCEPT ![cur.para].runs = Append(@, run)]
             IN  /\ calls' = Append(calls, Call(Site(i, 1, j, k, cur.para, cur.run),
                                                run_data.text, ok))
                 /\ IF cur.run < Len(original_paragraphs[cur.para].runs)
                    THEN /\ prs' = WithFrame(prs, i, j, k, added)
                         /\ cur' = [cur EXCEPT !.run = @ + 1]
                         /\ pc' = "run"
                    ELSE LET nx == rebuild_from(added, original_paragraphs, cur.para + 1) IN
                         /\ prs' = WithFrame(prs, i, j, k, nx.frame)
                         /\ AfterParagraphs(nx.para, original_paragraphs)
    /\ UNCHANGED <<text, ret, strings, slides_out, prs0, original_paragraphs, snapshotted>>

\* Lines 211-217: the notes, then the next slide or the save.
TranslateNotes ==
    /\ pc = "notes"
    /\ LET slide == prs[cur.slide]
           notes_text == frame_text(slide.notes)
           translating == slide.has_notes_slide /\ strip(notes_text) # <<>>
       IN  \E ok \in (IF translating THEN BOOLEAN ELSE {TRUE}) :
             /\ IF translating
                THEN /\ prs' = [prs EXCEPT ![cur.slide].notes =
                                   set_text(translate_text(notes_text, ok))]
                     /\ calls' = Append(calls, Call(Site(cur.slide, 2, 0, 0, 0, 0),
                                                    notes_text, ok))
                ELSE UNCHANGED <<prs, calls>>
             /\ pc' = IF cur.slide < Len(prs) THEN "title" ELSE "save"
             /\ cur' = [slide |-> cur.slide + 1, shape |-> 0, cell |-> 0, para |-> 0, run |-> 0]
    /\ UNCHANGED <<text, ret, strings, slides_out, prs0, original_paragraphs, snapshotted>>

\* Line 220: prs.save(output_path).
Save ==
    /\ pc = "save"
    /\ ret' = prs
    /\ pc' = "done"
    /\ UNCHANGED <<text, strings, prs, slides_out, prs0, cur, original_paragraphs,
                   calls, snapshotted>>

NextTranslate == TranslateTitle \/ VisitFrame \/ TranslateRun \/ TranslateNotes \/ Save

\* ---------------------------------------------- inputs of the translator
Font(name, size, bold, italic, underline, color_rgb) ==
    [name |-> name, size |-> size, bold |-> bold, italic |-> italic,
     underline |-> underline, color_rgb |-> color_rgb]

\* Runs: every attribute set and truthy; attributes explicitly off; no
\* explicit RGB colour; blank text (a space and a form feed).
StyledRun == [text |-> <<"Hello">>, font |-> Font("Arial", "Pt12", "True", "True", "True", "FF0000")]
FalsyRun  == [text |-> <<"World">>, font |-> Font("None", "None", "False", "None", "False", "00FF00")]
ThemeRun  == [text |-> <<"Theme">>, font |-> Font("Arial", "None", "None", "None", "None", "NoRGB")]
BlankRun  == [text |-> <<" ", "\f">>, font |-> Font("None", "None", "None", "None", "None", "0000FF")]
RunSamples == {StyledRun, FalsyRun, ThemeRun, BlankRun}

Para(runs) ==
    [alignment |-> "CENTER", level |-> 1, line_spacing |-> "1.5",
     space_before |-> "0", space_after |-> "None", runs |-> runs]

RECURSIVE SumTo(_, _)
SumTo(l, q) == IF q = 0 THEN 0 ELSE l[q] + SumTo(l, q - 1)

\* Paragraph lengths of a frame: 1..MaxParas paragraphs, MaxRuns runs in all.
ParaLens ==
    UNION {{l \in [1..np -> 0..MaxRuns] : SumTo(l, np) <= MaxRuns} : np \in 1..MaxParas}

FrameOf(l, rs) ==
    [q \in DOMAIN l |-> Para(SubSeq(rs, SumTo(l, q - 1) + 1, SumTo(l, q)))]

AllFrames ==
    UNION {{FrameOf(l, rs) : rs \in [1..SumTo(l, Len(l)) -> RunSamples]} : l \in ParaLens}

NoFrame == <<NewParagraph>>
FrameBox(f)  == [has_text_frame |-> TRUE, text_frame |-> f, has_table |-> FALSE, table |-> <<>>]
CellTable(m) == [has_text_frame |-> FALSE, text_frame |-> NoFrame, has_table |-> TRUE, table |-> m]
Image        == [has_text_frame |-> FALSE, text_frame |-> NoFrame, has_table |-> FALSE, table |-> <<>>]

\* One slide, no title, no notes, one text box or one one-cell table.
RewriteDocs ==
    {<< [shapes |-> <<sh>>, title |-> 0, has_notes_slide |-> FALSE, notes |-> NoFrame] >> :
        sh \in {FrameBox(f) : f \in AllFrames} \cup {CellTable(<< <<f>> >>) : f \in AllFrames}}

\* Decks: a title of two runs or of two paragraphs, or none; a body; notes or
\* none.
DeckTitles ==
    {<< Para(<<StyledRun, FalsyRun>>) >>,
     << Para(<<StyledRun>>), Para(<<FalsyRun>>) >>}

DeckBodies ==
    { << FrameBox(<< Para(<<StyledRun, FalsyRun>>) >>) >>,
      << FrameBox(<< Para(<<BlankRun>>) >>),
         CellTable(<< << << Para(<<StyledRun>>) >>, << Para(<<FalsyRun>>) >> >> >>) >>,
      << Image, FrameBox(<< Para(<<StyledRun, ThemeRun>>) >>) >> }

DeckNotes ==
    {[has_notes_slide |-> FALSE, notes |-> NoFrame],
     [has_notes_slide |-> TRUE, notes |-> << Para(<<StyledRun>>) >>]}

DeckSlides ==
    {[shapes |-> b, title |-> 0, has_notes_slide |-> n.has_notes_slide, notes |-> n.notes] :
        b \in DeckBodies, n \in DeckNotes}
    \cup
    {[shapes |-> <<FrameBox(t)>> \o b, title |-> 1,
      has_notes_slide |-> n.has_notes_slide, notes |-> n.notes] :
        t \in DeckTitles, b \in DeckBodies, n \in DeckNotes}

DeckDocs == SeqsOf(DeckSlides, 1, MaxSlides)

InitTranslateOver(docs) ==
    /\ prs \in docs
    /\ prs0 = prs
    /\ pc = "title"
    /\ cur = [slide |-> 1, shape |-> 0, cell |-> 0, para |-> 0, run |-> 0]
    /\ original_paragraphs = <<>>
    /\ calls = <<>>
    /\ snapshotted = {}
    /\ ret = Idle
    /\ text = Idle /\ strings = Idle /\ slides_out = Idle

InitRewrite == InitTranslateOver(RewriteDocs)
InitTranslate == InitTranslateOver(DeckDocs)

\* translate_presentation on a presentation of one frame.
SpecRewrite == InitRewrite /\ [][NextTranslate]_vars

\* translate_presentation on a deck.
SpecTranslate == InitTranslate /\ [][NextTranslate]_vars

\* ------------------------------------------ properties of the translator
LexBefore(a, b) ==
    \E k \in 1..Len(a) : a[k] < b[k] /\ \A m \in 1..(k - 1) : a[m] = b[m]

\* The frames of the loaded presentation: <<slide, shape, cell>>.
FramePlaces ==
    UNION {UNION {{<<i, j, k>> :
                      k \in 0..(IF prs0[i].shapes[j].has_table
                                THEN CellCount(prs0[i].shapes[j].table) ELSE 0)} :
                  j \in DOMAIN prs0[i].shapes} :
           i \in DOMAIN prs0}

\* The frames the rewrite applies to: not the title's, present, not blank.
RewriteFrames ==
    {f \in FramePlaces :
        /\ f[2] # prs0[f[1]].title
        /\ IF f[3] = 0 THEN prs0[f[1]].shapes[f[2]].has_text_frame
                       ELSE prs0[f[1]].shapes[f[2]].has_table
        /\ Trimmed(frame_text(FrameAt(prs0, f[1], f[2], f[3]))) # <<>>}

\* The shape loop has left the frame behind.
Passed(f) == LexBefore(f, <<cur.slide, cur.shape, cur.cell>>)

NonNull(v) == v \notin {"None", "NoRGB"}

\* C2: after the rewrite a frame has its N paragraphs with their R_i runs,
\* and every font attribute of a run that was non-null before is equal after.
Claim_C2_ShapePreserved ==
    \A f \in RewriteFrames :
        Passed(f) =>
            LET before == FrameAt(prs0, f[1], f[2], f[3])
                after  == FrameAt(prs, f[1], f[2], f[3])
            IN  /\ Len(after) = Len(before)
                /\ \A p \in DOMAIN before :
                      /\ Len(after[p].runs) = Len(before[p].runs)
                      /\ \A r \in DOMAIN before[p].runs : \A a \in FontAttrs :
                            NonNull(before[p].runs[r].font[a])
                                => after[p].runs[r].font[a] = before[p].runs[r].font[a]

\* C3: a failing translation of one run does not abort the rewrite: that run
\* keeps its snapshotted text, every other run of the frame has its own
\* translation, and every run has the formatting the snapshot gives it
\* whatever failed; each translation step, failing or not, goes on to the
\* next run or frame.
Thm_C3_FailureContained ==
    /\ [](\A n \in DOMAIN calls :
            LET c == calls[n]
                p == c.site[5]
                r == c.site[6]
            IN  c.site[2] = 1 =>
                  LET before == FrameAt(prs0, c.site[1], c.site[3], c.site[4])[p].runs[r]
                      runs   == FrameAt(prs, c.site[1], c.site[3], c.site[4])[p].runs
                  IN  /\ r \in DOMAIN runs
                      /\ c.arg = before.text
                      /\ runs[r].text = IF c.ok THEN <<"zh:">> \o before.text ELSE before.text
                      /\ \A a \in FontAttrs :
                            runs[r].font[a] = IF truthy(before.font[a]) THEN before.font[a]
                                              ELSE NewFont[a])
    /\ [](pc = "crashed" =>
            \A n \in DOMAIN calls :
                <<calls[n].site[1], calls[n].site[3], calls[n].site[4]>>
                    # <<cur.slide, cur.shape, cur.cell>>)
    /\ [][pc = "run" => (pc' \in {"run", "frame"} /\ Len(calls') = Len(calls) + 1)]_vars

\* A frame of three runs has been rewritten and saved, the translation of
\* its second run having failed and the others succeeded.
Wit_C3_FailureContained ==
    /\ pc = "done"
    /\ Len(calls) = 3
    /\ calls[1].ok /\ ~calls[2].ok /\ calls[3].ok
    /\ calls[1].arg # calls[3].arg

\* C8: a translated title keeps its number of paragraphs and its number of
\* runs in each paragraph.
Claim_C8_TitleStructure ==
    \A n \in DOMAIN calls :
        calls[n].site[2] = 0 =>
            LET i == calls[n].site[1]
                before == prs0[i].shapes[prs0[i].title].text_frame
                after  == prs[i].shapes[prs0[i].title].text_frame
            IN  /\ Len(after) = Len(before)
                /\ \A p \in DOMAIN before : Len(after[p].runs) = Len(before[p].runs)

\* The calls the loaded presentation asks for: one for each non-blank title,
\* one for each run of each frame the rewrite applies to, one for each
\* non-blank notes frame.
ExpectedSites ==
    {Site(i, 0, 0, 0, 0, 0) : i \in {x \in DOMAIN prs0 :
        /\ prs0[x].title # 0
        /\ Trimmed(frame_text(prs0[x].shapes[prs0[x].title].text_frame)) # <<>>}}
    \cup UNION {{Site(f[1], 1, f[2], f[3], pr[1], pr[2]) :
                    pr \in RunsOf(FrameAt(prs0, f[1], f[2], f[3]))} : f \in RewriteFrames}
    \cup {Site(i, 2, 0, 0, 0, 0) : i \in {x \in DOMAIN prs0 :
        prs0[x].has_notes_slide /\ Trimmed(frame_text(prs0[x].notes)) # <<>>}}

NthSite(S, n) == CHOOSE x \in S : Cardinality({y \in S : LexBefore(y, x)}) = n - 1

\* The calls made so far are the first of the expected calls, in document
\* order, each once; the save follows the last of them.
CallsInDocumentOrder ==
    /\ Len(calls) <= Cardinality(ExpectedSites)
    /\ \A n \in DOMAIN calls : calls[n].site = NthSite(ExpectedSites, n)
    /\ pc = "done" => Len(calls) = Cardinality(ExpectedSites)

\* C10: the translation calls happen one at a time in document order; each
\* snapshotted run of a non-blank frame causes exactly one call, a blank
\* frame none; the presentation is saved only after the last call.
Claim_C10_CallOrder ==
    /\ CallsInDocumentOrder
    /\ pc \in {"done", "crashed"} =>
          \A site \in snapshotted :
              Cardinality({n \in DOMAIN calls : calls[n].site = site}) = 1

====
